---- MODULE Spec2Model ----
(***************************************************************************)
(* A model of the tick-based market simulation:                            *)
(*   src/orchestration.py  SimulationOrchestrator (validation, routing,    *)
(*                         settlement, tick logs)                          *)
(*   src/order_book.py     OrderBook (price-time priority matching, price  *)
(*                         impact, volatility noise)                       *)
(*   src/server.py         the start of the simulation task (WebSocket     *)
(*                         start_simulation command and POST /start)       *)
(* Prices, cash and sizes are integers; an engine's last price is an exact *)
(* rational <<numerator, denominator>> because price impact and noise      *)
(* multiply it by fractions.                                               *)
(***************************************************************************)
EXTENDS Integers, Sequences, FiniteSets, TLC

VARIABLES
    tick,             \* SimulationOrchestrator._tick
    stocks,           \* key order of the dict _market_cores (registration order)
    books,            \* _market_cores: stock id -> OrderBook state
    agent_portfolios, \* _agent_portfolios: agent id -> AgentPortfolio
    pending_orders,   \* _pending_orders
    tick_logs,        \* _tick_logs
    result,           \* outcome of the last call: what it returned or raised
    match_trace,      \* the matching steps of the last run_tick, in order
    held,             \* the objects get_agent_portfolio has returned to the caller
    server            \* src/server.py: simulation_task, the tasks it has named, the
                      \* /ws handlers and the answers sent to start requests

vars == <<tick, stocks, books, agent_portfolios, pending_orders, tick_logs,
          result, match_trace, held, server>>

(***************************************************************************)
(* Bounds and input sets.                                                  *)
(***************************************************************************)
MaxTick == 2
MaxOrders == 2
MaxBookOrders == 3
MaxTradingOrders == 3
MaxHeld == 2
MaxOversellOrders == 5
MaxPairOrders == 4
MaxPairTick == 1
MaxStartRequests == 3

AgentIds == {"a", "b"}
StockIds == {"X"}
Sides == {"buy", "sell"}
\* <<price, size>> of the orders submitted
OrderShapes == {<<0, 1>>, <<1, 0>>, <<1, 1>>, <<1, 2>>, <<2, 1>>}
CashInputs == {2}
\* <<agent, quantity>> of the positions the scenario may seed
SeedInputs == {<<"a", 1>>, <<"b", 2>>}
InitialPrices == {2}
\* <<price, size>> of the orders handed to an engine on its own
BookShapes == {<<1, 1>>, <<1, 2>>, <<2, 1>>, <<2, 2>>}
BookAgents == {"a", "b"}
\* <<price, size>> of the orders of the price impact scenario
ScenarioShapes == {<<110, 20>>, <<100, 20>>, <<110, 10>>, <<100, 10>>, <<110, 0>>}
\* <<price, size>> of the orders of the volatile scenario
VolatileShapes == {<<1, 1>>, <<1, 2>>}
\* <<price, size>> of the orders of the scenarios that trade single units
UnitShapes == {<<1, 1>>}
\* <<agent, side, size>> of the orders of the scenario that runs for five
\* orders, all at the price 1
OversellOrders == {<<"a", "sell", 1>>, <<"a", "buy", 1>>,
                   <<"b", "sell", 1>>, <<"b", "buy", 2>>}
\* the stocks of the scenario with two engines
PairStocks == {"X", "Y"}
\* <<agent, side>> of the orders of the scenarios where a sells and b buys
SellerAndBuyer == {<<"a", "sell">>, <<"b", "buy">>}
\* the ids get_agent_portfolio is called with, one of them unregistered
QueriedAgentIds == {"a", "nobody"}
\* values the random source may hand out, whether or not an engine uses them
RandomValues == {<<-1, 2>>, <<0, 1>>, <<1, 2>>}
\* the values a caller writes into a portfolio it was handed
CallerCash == {0}
CallerQuantities == {5}
\* the clients connected to /ws
WsClients == {"c1", "c2"}
\* price_impact and volatility as fractions <<numerator, denominator>>
PriceImpacts == {<<1, 4>>}
Volatilities == {<<0, 1>>}

(***************************************************************************)
(* Exact fractions for OrderBook._last_price.                              *)
(***************************************************************************)
Abs(n) == IF n < 0 THEN -n ELSE n

RECURSIVE Gcd(_, _)
Gcd(m, n) == IF n = 0 THEN m ELSE Gcd(n, m % n)

Frac(n, d) ==
    LET g == Gcd(Abs(n), Abs(d))
    IN IF g = 0 THEN <<0, 1>> ELSE <<n \div g, d \div g>>

FracMul(p, q) == Frac(p[1] * q[1], p[2] * q[2])

\* 1 + k * f for an integer k and a fraction f
OnePlus(k, f) == Frac(f[2] + k * f[1], f[2])

FracEq(p, q) == p[1] * q[2] = q[1] * p[2]

(***************************************************************************)
(* Python helpers.                                                         *)
(***************************************************************************)
\* dict.get(key, 0)
Get(d, k) == IF k \in DOMAIN d THEN d[k] ELSE 0

\* d[k] = v on a dict
Put(d, k, v) == [x \in DOMAIN d \cup {k} |-> IF x = k THEN v ELSE d[x]]

\* d.pop(k, None)
Pop(d, k) == [x \in DOMAIN d \ {k} |-> d[x]]

EmptyDict == [x \in {} |-> 0]

(***************************************************************************)
(* OrderBook (src/order_book.py).  A heap entry is the tuple               *)
(* <<key, sequence, size, agent_id, stamp>> with key = -price for a bid and *)
(* key = price for an ask.  The fifth component is not in the code: it is  *)
(* a history stamp [arrival, price, size] of the order the entry came      *)
(* from, which no comparison reads and every re-push carries along.        *)
(* A heapq heap is modelled by the set of its entries: heap[0] and heappop *)
(* give the least tuple in Python's tuple order.                           *)
(***************************************************************************)
\* Python's < on the heap tuples (sequence numbers are compared before sizes)
TupleLess(t, u) ==
    \/ t[1] < u[1]
    \/ t[1] = u[1] /\ t[2] < u[2]
    \/ t[1] = u[1] /\ t[2] = u[2] /\ t[3] < u[3]

HeapTop(h) == CHOOSE t \in h : \A u \in h : ~TupleLess(u, t)

HeapPush(h, t) == h \cup {t}

HeapPop(h) == h \ {HeapTop(h)}

NewOrderBook(stock_id, initial_price, price_impact, volatility) ==
    [stock_id     |-> stock_id,
     last_price   |-> Frac(initial_price, 1),
     sequence     |-> 0,
     arrivals     |-> 0,
     price_impact |-> price_impact,
     volatility   |-> volatility,
     bids         |-> {},
     asks         |-> {},
     pending      |-> <<>>]

\* OrderBook.submit_order
BookSubmit(book, order) ==
    [book EXCEPT !.pending = Append(@, order)]

RECURSIVE NetPressureOfBuys(_)
\* mutant: sell orders are not subtracted
NetPressureOfBuys(pending) ==
    IF pending = <<>> THEN 0
    ELSE LET order == Head(pending)
         IN (IF order.side = "buy" THEN order.size ELSE 0)
            + NetPressureOfBuys(Tail(pending))

RECURSIVE NetPressure(_)
\* net_pressure: buy sizes minus sell sizes over the pending orders
NetPressure(pending) ==
    IF pending = <<>> THEN 0
    ELSE LET order == Head(pending)
         IN (IF order.side = "buy" THEN order.size ELSE -order.size)
            + NetPressure(Tail(pending))

\* history stamp of an order: its rank of arrival at the engine and its terms
Stamp(order, arrival) == [arrival |-> arrival, price |-> order.price, size |-> order.size]

\* mutant: the newest bid of a price level comes first
BidEntryNewestFirst(order, sequence, arrival) ==
    <<-order.price, -sequence, order.size, order.agent_id, Stamp(order, arrival)>>

BidEntry(order, sequence, arrival) ==
    <<-order.price, sequence, order.size, order.agent_id, Stamp(order, arrival)>>

\* mutant: the ask key is negated like the bid key
AskEntryNegated(order, sequence, arrival) ==
    <<-order.price, sequence, order.size, order.agent_id, Stamp(order, arrival)>>

AskEntry(order, sequence, arrival) ==
    <<order.price, sequence, order.size, order.agent_id, Stamp(order, arrival)>>

RECURSIVE AddPending(_, _)
\* the loop that pushes every pending order; st = [bids, asks, sequence, arrivals]
AddPending(st, pending) ==
    IF pending = <<>> THEN st
    ELSE LET order == Head(pending)
             seq == st.sequence + 1
             arr == st.arrivals + 1
         IN AddPending(
                IF order.side = "buy"
                THEN [st EXCEPT !.sequence = seq, !.arrivals = arr,
                                !.bids = HeapPush(@, BidEntry(order, seq, arr))]
                ELSE [st EXCEPT !.sequence = seq, !.arrivals = arr,
                                !.asks = HeapPush(@, AskEntry(order, seq, arr))],
                Tail(pending))

\* mutant: the bid's heap key is read as its price without undoing the sign
TradePriceOfRawKey(best_bid, best_ask) ==
    IF best_bid[2] < best_ask[2] THEN best_bid[1] ELSE best_ask[1]

\* mutant: the trade takes the price of the order that arrived later
TradePriceOfLaterOrder(best_bid, best_ask) ==
    IF best_bid[2] > best_ask[2] THEN -best_bid[1] ELSE best_ask[1]

\* trade_price: the limit price of the entry with the lower sequence number
TradePrice(best_bid, best_ask) ==
    IF best_bid[2] < best_ask[2] THEN -best_bid[1] ELSE best_ask[1]

\* mutant: one unit is traded at a time
TradeSizeOfOneUnit(bid_size, ask_size) == 1

\* mutant: the larger of the two sizes
TradeSizeOfLarger(bid_size, ask_size) == IF bid_size < ask_size THEN ask_size ELSE bid_size

\* trade_size = min(bid_size, ask_size)
TradeSize(bid_size, ask_size) == IF bid_size < ask_size THEN bid_size ELSE ask_size

\* mutant: the remainder goes back with the size it had before the trade
RepushBidKeepsSize(bids, best_bid, trade_size) ==
    IF best_bid[3] > trade_size
    THEN HeapPush(bids, best_bid)
    ELSE bids

\* if bid_size > trade_size: heappush(bids, (-bid_price, bid_seq, rest, bid_agent))
RepushBid(bids, best_bid, trade_size) ==
    IF best_bid[3] > trade_size
    THEN HeapPush(bids, <<best_bid[1], best_bid[2], best_bid[3] - trade_size,
                          best_bid[4], best_bid[5]>>)
    ELSE bids

RepushAsk(asks, best_ask, trade_size) ==
    IF best_ask[3] > trade_size
    THEN HeapPush(asks, <<best_ask[1], best_ask[2], best_ask[3] - trade_size,
                          best_ask[4], best_ask[5]>>)
    ELSE asks

RECURSIVE MatchLoopStopsAtTouch(_, _)
\* mutant: the loop also stops when the best bid equals the best ask
MatchLoopStopsAtTouch(stock_id, st) ==
    IF st.bids = {} \/ st.asks = {} THEN st
    ELSE LET best_bid == HeapTop(st.bids)
             best_ask == HeapTop(st.asks)
             bid_price == -best_bid[1]
             ask_price == best_ask[1]
         IN IF bid_price <= ask_price THEN st
            ELSE LET trade_price == TradePrice(best_bid, best_ask)
                     trade_size == TradeSize(best_bid[3], best_ask[3])
                     trade == [buyer_id  |-> best_bid[4],
                               seller_id |-> best_ask[4],
                               stock_id  |-> stock_id,
                               price     |-> trade_price,
                               size      |-> trade_size,
                               tick      |-> 0]
                     step == [stock_id |-> stock_id,
                              bid      |-> best_bid,
                              ask      |-> best_ask,
                              bids     |-> st.bids,
                              asks     |-> st.asks,
                              trade    |-> trade]
                 IN MatchLoopStopsAtTouch(stock_id,
                        [bids       |-> RepushBid(HeapPop(st.bids), best_bid, trade_size),
                         asks       |-> RepushAsk(HeapPop(st.asks), best_ask, trade_size),
                         last_price |-> Frac(trade_price, 1),
                         trades     |-> Append(st.trades, trade),
                         trace      |-> Append(st.trace, step)])

RECURSIVE MatchLoop(_, _)
\* the while loop of execute; st = [bids, asks, last_price, trades, trace]
MatchLoop(stock_id, st) ==
    IF st.bids = {} \/ st.asks = {} THEN st
    ELSE LET best_bid == HeapTop(st.bids)
             best_ask == HeapTop(st.asks)
             bid_price == -best_bid[1]
             ask_price == best_ask[1]
         IN IF bid_price < ask_price THEN st
            ELSE LET trade_price == TradePrice(best_bid, best_ask)
                     trade_size == TradeSize(best_bid[3], best_ask[3])
                     trade == [buyer_id  |-> best_bid[4],
                               seller_id |-> best_ask[4],
                               stock_id  |-> stock_id,
                               price     |-> trade_price,
                               size      |-> trade_size,
                               tick      |-> 0]
                     step == [stock_id |-> stock_id,
                              bid      |-> best_bid,
                              ask      |-> best_ask,
                              bids     |-> st.bids,
                              asks     |-> st.asks,
                              trade    |-> trade]
                 IN MatchLoop(stock_id,
                        [bids       |-> RepushBid(HeapPop(st.bids), best_bid, trade_size),
                         asks       |-> RepushAsk(HeapPop(st.asks), best_ask, trade_size),
                         last_price |-> Frac(trade_price, 1),
                         trades     |-> Append(st.trades, trade),
                         trace      |-> Append(st.trace, step)])

ApplyImpact(last_price, net_pressure, price_impact) ==
    IF net_pressure # 0
    THEN FracMul(last_price, OnePlus(net_pressure, price_impact))
    ELSE last_price

\* mutant: the noise factor is applied whatever the volatility
ApplyNoiseUnguarded(last_price, volatility, noise) ==
    FracMul(last_price, OnePlus(1, noise))

\* the noise step: only an engine with volatility > 0 uses the random draw
ApplyNoise(last_price, volatility, noise) ==
    IF volatility[1] > 0
    THEN FracMul(last_price, OnePlus(1, noise))
    ELSE last_price

\* the values random.uniform(-volatility, volatility) is sampled at
NoiseChoices(volatility) ==
    IF volatility[1] > 0
    THEN {<<-volatility[1], volatility[2]>>, <<0, 1>>, volatility}
    ELSE {<<0, 1>>}

\* mutant: every execute numbers its orders from 1 again
ExecuteRestartsSequence(book, noise) ==
    LET net_pressure == NetPressure(book.pending)
        added == AddPending([bids |-> book.bids, asks |-> book.asks,
                             sequence |-> 0,
                             arrivals |-> book.arrivals], book.pending)
        matched == MatchLoop(book.stock_id,
                       [bids |-> added.bids, asks |-> added.asks,
                        last_price |-> book.last_price,
                        trades |-> <<>>, trace |-> <<>>])
        impacted == ApplyImpact(matched.last_price, net_pressure, book.price_impact)
    IN [book   |-> [book EXCEPT !.sequence = added.sequence,
                                !.arrivals = added.arrivals,
                                !.pending = <<>>,
                                !.bids = matched.bids,
                                !.asks = matched.asks,
                                !.last_price = ApplyNoise(impacted, book.volatility, noise)],
        trades |-> matched.trades,
        trace  |-> matched.trace]

\* mutant: the impact factor multiplies the price carried over from the
\* previous execute instead of the price of the last trade
ExecuteImpactOnCarriedPrice(book, noise) ==
    LET net_pressure == NetPressure(book.pending)
        added == AddPending([bids |-> book.bids, asks |-> book.asks,
                             sequence |-> book.sequence,
                             arrivals |-> book.arrivals], book.pending)
        matched == MatchLoop(book.stock_id,
                       [bids |-> added.bids, asks |-> added.asks,
                        last_price |-> book.last_price,
                        trades |-> <<>>, trace |-> <<>>])
        impacted == ApplyImpact(book.last_price, net_pressure, book.price_impact)
    IN [book   |-> [book EXCEPT !.sequence = added.sequence,
                                !.arrivals = added.arrivals,
                                !.pending = <<>>,
                                !.bids = matched.bids,
                                !.asks = matched.asks,
                                !.last_price = ApplyNoise(impacted, book.volatility, noise)],
        trades |-> matched.trades,
        trace  |-> matched.trace]

\* OrderBook.execute: [book |-> the engine afterwards, trades, trace]
Execute(book, noise) ==
    LET net_pressure == NetPressure(book.pending)
        added == AddPending([bids |-> book.bids, asks |-> book.asks,
                             sequence |-> book.sequence,
                             arrivals |-> book.arrivals], book.pending)
        matched == MatchLoop(book.stock_id,
                       [bids |-> added.bids, asks |-> added.asks,
                        last_price |-> book.last_price,
                        trades |-> <<>>, trace |-> <<>>])
        impacted == ApplyImpact(matched.last_price, net_pressure, book.price_impact)
    IN [book   |-> [book EXCEPT !.sequence = added.sequence,
                                !.arrivals = added.arrivals,
                                !.pending = <<>>,
                                !.bids = matched.bids,
                                !.asks = matched.asks,
                                !.last_price = ApplyNoise(impacted, book.volatility, noise)],
        trades |-> matched.trades,
        trace  |-> matched.trace]

(***************************************************************************)
(* SimulationOrchestrator (src/orchestration.py).                          *)
(***************************************************************************)
NewPortfolio(agent_id, initial_cash) ==
    [agent_id |-> agent_id, cash |-> initial_cash, positions |-> EmptyDict]

\* _validate_order against the ledger `portfolios`
ValidateOrder(portfolios, order) ==
    LET portfolio == portfolios[order.agent_id]
    IN IF order.side = "buy"
       THEN portfolio.cash >= order.price * order.size
       ELSE Get(portfolio.positions, order.stock_id) >= order.size

\* the seller's half of _apply_trade: an entry that reaches zero is popped
SellerPositions(positions, stock_id, size) ==
    LET reduced == Put(positions, stock_id, Get(positions, stock_id) - size)
    IN IF Get(reduced, stock_id) = 0 THEN Pop(reduced, stock_id) ELSE reduced

\* mutant: the buyer is credited instead of debited
BuyerCashCredited(cash, trade_value) == cash + trade_value

BuyerCash(cash, trade_value) == cash - trade_value

SellerCash(cash, trade_value) == cash + trade_value

\* mutant: both halves are computed from the ledger as it was before the
\* trade and the buyer's half is stored last
ApplyTradeStaleBuyer(portfolios, trade) ==
    LET trade_value == trade.price * trade.size
        seller == portfolios[trade.seller_id]
        after_seller ==
            [portfolios EXCEPT ![trade.seller_id] =
                [seller EXCEPT
                    !.cash = SellerCash(@, trade_value),
                    !.positions = SellerPositions(@, trade.stock_id, trade.size)]]
        buyer == portfolios[trade.buyer_id]
    IN [after_seller EXCEPT ![trade.buyer_id] =
           [buyer EXCEPT
               !.cash = BuyerCash(@, trade_value),
               !.positions = Put(@, trade.stock_id,
                                 Get(@, trade.stock_id) + trade.size)]]

\* mutant: the seller is read from the ledger as it was before the buyer's update
ApplyTradeStaleSeller(portfolios, trade) ==
    LET trade_value == trade.price * trade.size
        buyer == portfolios[trade.buyer_id]
        after_buyer ==
            [portfolios EXCEPT ![trade.buyer_id] =
                [buyer EXCEPT
                    !.cash = BuyerCash(@, trade_value),
                    !.positions = Put(@, trade.stock_id,
                                      Get(@, trade.stock_id) + trade.size)]]
        seller == portfolios[trade.seller_id]
    IN [after_buyer EXCEPT ![trade.seller_id] =
           [seller EXCEPT
               !.cash = SellerCash(@, trade_value),
               !.positions = SellerPositions(@, trade.stock_id, trade.size)]]

\* _apply_trade: the buyer is updated first, then the seller (who may be the
\* same portfolio object)
ApplyTrade(portfolios, trade) ==
    LET trade_value == trade.price * trade.size
        buyer == portfolios[trade.buyer_id]
        after_buyer ==
            [portfolios EXCEPT ![trade.buyer_id] =
                [buyer EXCEPT
                    !.cash = BuyerCash(@, trade_value),
                    !.positions = Put(@, trade.stock_id,
                                      Get(@, trade.stock_id) + trade.size)]]
        seller == after_buyer[trade.seller_id]
    IN [after_buyer EXCEPT ![trade.seller_id] =
           [seller EXCEPT
               !.cash = SellerCash(@, trade_value),
               !.positions = SellerPositions(@, trade.stock_id, trade.size)]]

\* mutant: the first trade of the tick is not settled
ApplyTradesSkipFirst(portfolios, trades) ==
    LET RECURSIVE Fold(_, _)
        Fold(ps, ts) == IF ts = <<>> THEN ps ELSE Fold(ApplyTrade(ps, Head(ts)), Tail(ts))
    IN IF trades = <<>> THEN portfolios ELSE Fold(portfolios, Tail(trades))

RECURSIVE ApplyTrades(_, _)
\* run_tick's settlement loop: for trade in all_trades: _apply_trade(trade)
ApplyTrades(portfolios, trades) ==
    IF trades = <<>> THEN portfolios
    ELSE ApplyTrades(ApplyTrade(portfolios, Head(trades)), Tail(trades))

RECURSIVE RouteOrdersToAll(_, _)
\* mutant: every valid order is handed to every engine
RouteOrdersToAll(cores, valid_orders) ==
    IF valid_orders = <<>> THEN cores
    ELSE LET order == Head(valid_orders)
         IN RouteOrdersToAll(
                [sid \in DOMAIN cores |-> BookSubmit(cores[sid], order)],
                Tail(valid_orders))

RECURSIVE RouteOrders(_, _)
\* run_tick's routing loop: every valid order goes to its stock's engine
RouteOrders(cores, valid_orders) ==
    IF valid_orders = <<>> THEN cores
    ELSE LET order == Head(valid_orders)
         IN RouteOrders(
                [cores EXCEPT ![order.stock_id] = BookSubmit(@, order)],
                Tail(valid_orders))

RECURSIVE ExecuteAllLastFirst(_, _, _)
\* mutant: the engines are executed from the last registered to the first
ExecuteAllLastFirst(st, order, noise) ==
    IF order = <<>> THEN st
    ELSE LET sid == order[Len(order)]
             done == Execute(st.cores[sid], noise[sid])
         IN ExecuteAllLastFirst(
                [cores      |-> [st.cores EXCEPT ![sid] = done.book],
                 all_trades |-> st.all_trades \o done.trades,
                 trace      |-> st.trace \o done.trace],
                SubSeq(order, 1, Len(order) - 1), noise)

RECURSIVE ExecuteAll(_, _, _)
\* run_tick's loop over _market_cores.values(), in key order;
\* st = [cores, all_trades, trace]
ExecuteAll(st, order, noise) ==
    IF order = <<>> THEN st
    ELSE LET sid == Head(order)
             done == Execute(st.cores[sid], noise[sid])
         IN ExecuteAll(
                [cores      |-> [st.cores EXCEPT ![sid] = done.book],
                 all_trades |-> st.all_trades \o done.trades,
                 trace      |-> st.trace \o done.trace],
                Tail(order), noise)

LastPrices(cores) == [sid \in DOMAIN cores |-> cores[sid].last_price]

\* orders handed over so far: the bound on the run's length counts them
OrdersSubmitted ==
    LET RECURSIVE Logged(_)
        Logged(i) == IF i = 0 THEN 0 ELSE Len(tick_logs[i].orders) + Logged(i - 1)
    IN Logged(Len(tick_logs)) + Len(pending_orders)

\* src/server.py once the module is loaded: simulation_task = None, no task
\* has been created, every /ws handler waits in receive_json and no start
\* request has been answered.  simulation_task is 0 for None and otherwise
\* the index in tasks of the task it names.
ServerAtLoad ==
    [simulation_task |-> 0,
     tasks           |-> <<>>,
     ws              |-> [c \in WsClients |-> "receive"],
     replies         |-> <<>>]

\* scenario set-up (registration, seeding) precedes the first order and tick
InSetup == tick = 0 /\ pending_orders = <<>>

Init ==
    /\ tick = 0
    /\ stocks = <<>>
    /\ books = EmptyDict
    /\ agent_portfolios = EmptyDict
    /\ pending_orders = <<>>
    /\ tick_logs = <<>>
    /\ result = [op |-> "init", ret |-> "None"]
    /\ match_trace = <<>>
    /\ held = <<>>
    /\ server = ServerAtLoad

\* register_stock(stock_id, OrderBook(stock_id, initial_price, price_impact, volatility))
RegisterStock(stock_id, initial_price, price_impact, volatility) ==
    /\ InSetup
    /\ IF stock_id \in DOMAIN books
       THEN /\ result' = [op |-> "register_stock", ret |-> "ValueError"]
            /\ UNCHANGED <<stocks, books>>
       ELSE /\ books' = Put(books, stock_id,
                            NewOrderBook(stock_id, initial_price, price_impact, volatility))
            /\ stocks' = Append(stocks, stock_id)
            /\ result' = [op |-> "register_stock", ret |-> "None"]
    /\ UNCHANGED <<tick, agent_portfolios, pending_orders, tick_logs, match_trace, held, server>>

\* mutant: no duplicate check, the entry is overwritten
RegisterAgentOverwrite(agent_id, initial_cash) ==
    /\ InSetup
    /\ agent_portfolios' = Put(agent_portfolios, agent_id,
                               NewPortfolio(agent_id, initial_cash))
    /\ result' = [op |-> "register_agent", ret |-> "None"]
    /\ UNCHANGED <<tick, stocks, books, pending_orders, tick_logs, match_trace, held, server>>

\* register_agent(agent_id, initial_cash)
RegisterAgent(agent_id, initial_cash) ==
    /\ InSetup
    /\ IF agent_id \in DOMAIN agent_portfolios
       THEN /\ result' = [op |-> "register_agent", ret |-> "ValueError"]
            /\ UNCHANGED agent_portfolios
       ELSE /\ agent_portfolios' = Put(agent_portfolios, agent_id,
                                       NewPortfolio(agent_id, initial_cash))
            /\ result' = [op |-> "register_agent", ret |-> "None"]
    /\ UNCHANGED <<tick, stocks, books, pending_orders, tick_logs, match_trace, held, server>>

\* scenario set-up: orchestrator._agent_portfolios[agent_id].positions[stock_id] = quantity
SeedPosition(agent_id, stock_id, quantity) ==
    /\ InSetup
    /\ agent_id \in DOMAIN agent_portfolios
    /\ stock_id \in DOMAIN books
    /\ stock_id \notin DOMAIN agent_portfolios[agent_id].positions
    /\ agent_portfolios' =
           [agent_portfolios EXCEPT ![agent_id].positions = Put(@, stock_id, quantity)]
    /\ result' = [op |-> "seed_position", ret |-> "None"]
    /\ UNCHANGED <<tick, stocks, books, pending_orders, tick_logs, match_trace, held, server>>

\* mutant: the participant is not looked up
SubmitAcceptsAnyAgent(agent_id, stock_id, side, price, size) ==
    /\ stock_id \in DOMAIN books
    /\ ~(price <= 0 \/ size <= 0)

\* mutant: a price of zero passes the check
SubmitAcceptsZeroPrice(agent_id, stock_id, side, price, size) ==
    /\ agent_id \in DOMAIN agent_portfolios
    /\ stock_id \in DOMAIN books
    /\ ~(price < 0 \/ size <= 0)

\* what submit_order returns
SubmitAccepts(agent_id, stock_id, side, price, size) ==
    /\ agent_id \in DOMAIN agent_portfolios
    /\ stock_id \in DOMAIN books
    /\ ~(price <= 0 \/ size <= 0)

\* mutant: an accepted order is also handed to its engine at once
SubmitOrderRoutes(agent_id, stock_id, side, price, size) ==
    /\ LET order == [agent_id |-> agent_id, stock_id |-> stock_id, side |-> side,
                     price |-> price, size |-> size, tick |-> tick]
       IN IF SubmitAccepts(agent_id, stock_id, side, price, size)
          THEN /\ pending_orders' = Append(pending_orders, order)
               /\ books' = [books EXCEPT ![stock_id] = BookSubmit(@, order)]
               /\ result' = [op |-> "submit_order", ret |-> "True"]
          ELSE /\ pending_orders' = pending_orders
               /\ books' = books
               /\ result' = [op |-> "submit_order", ret |-> "False"]
    /\ UNCHANGED <<tick, stocks, agent_portfolios, tick_logs, match_trace, held, server>>

\* submit_order(agent_id, stock_id, side, price, size)
SubmitOrder(agent_id, stock_id, side, price, size) ==
    /\ IF SubmitAccepts(agent_id, stock_id, side, price, size)
       THEN /\ pending_orders' = Append(pending_orders,
                   [agent_id |-> agent_id, stock_id |-> stock_id, side |-> side,
                    price |-> price, size |-> size, tick |-> tick])
            /\ result' = [op |-> "submit_order", ret |-> "True"]
       ELSE /\ pending_orders' = pending_orders
            /\ result' = [op |-> "submit_order", ret |-> "False"]
    /\ UNCHANGED <<tick, stocks, books, agent_portfolios, tick_logs, match_trace, held, server>>

\* mutant: the snapshots are taken before the trades are settled
RunTickSnapshotFirst(noise) ==
    /\ LET IsValid(o) == ValidateOrder(agent_portfolios, o)
           valid_orders == SelectSeq(pending_orders, IsValid)
           routed == RouteOrders(books, valid_orders)
           executed == ExecuteAll([cores |-> routed, all_trades |-> <<>>,
                                   trace |-> <<>>], stocks, noise)
           settled == ApplyTrades(agent_portfolios, executed.all_trades)
           tick_log == [tick            |-> tick,
                        orders          |-> pending_orders,
                        trades          |-> executed.all_trades,
                        last_prices     |-> LastPrices(executed.cores),
                        agent_snapshots |-> agent_portfolios]
       IN /\ books' = executed.cores
          /\ agent_portfolios' = settled
          /\ tick_logs' = Append(tick_logs, tick_log)
          /\ match_trace' = executed.trace
    /\ pending_orders' = <<>>
    /\ tick' = tick + 1
    /\ result' = [op |-> "run_tick", ret |-> "TickLog"]
    /\ UNCHANGED <<stocks, held, server>>

\* mutant: every buffered order is routed, valid or not
RunTickRoutesAll(noise) ==
    /\ LET routed == RouteOrders(books, pending_orders)
           executed == ExecuteAll([cores |-> routed, all_trades |-> <<>>,
                                   trace |-> <<>>], stocks, noise)
           settled == ApplyTrades(agent_portfolios, executed.all_trades)
           tick_log == [tick            |-> tick,
                        orders          |-> pending_orders,
                        trades          |-> executed.all_trades,
                        last_prices     |-> LastPrices(executed.cores),
                        agent_snapshots |-> settled]
       IN /\ books' = executed.cores
          /\ agent_portfolios' = settled
          /\ tick_logs' = Append(tick_logs, tick_log)
          /\ match_trace' = executed.trace
    /\ pending_orders' = <<>>
    /\ tick' = tick + 1
    /\ result' = [op |-> "run_tick", ret |-> "TickLog"]
    /\ UNCHANGED <<stocks, held, server>>

\* mutant: the tick counter is read for the log after it was incremented
RunTickLogsNextTick(noise) ==
    /\ LET IsValid(o) == ValidateOrder(agent_portfolios, o)
           valid_orders == SelectSeq(pending_orders, IsValid)
           routed == RouteOrders(books, valid_orders)
           executed == ExecuteAll([cores |-> routed, all_trades |-> <<>>,
                                   trace |-> <<>>], stocks, noise)
           settled == ApplyTrades(agent_portfolios, executed.all_trades)
           tick_log == [tick            |-> tick + 1,
                        orders          |-> pending_orders,
                        trades          |-> executed.all_trades,
                        last_prices     |-> LastPrices(executed.cores),
                        agent_snapshots |-> settled]
       IN /\ books' = executed.cores
          /\ agent_portfolios' = settled
          /\ tick_logs' = Append(tick_logs, tick_log)
          /\ match_trace' = executed.trace
    /\ pending_orders' = <<>>
    /\ tick' = tick + 1
    /\ result' = [op |-> "run_tick", ret |-> "TickLog"]
    /\ UNCHANGED <<stocks, held, server>>

\* mutant: the snapshots are not deep copies, so every earlier log's
\* snapshots are the live portfolios and read as the ledger after this tick
RunTickSnapshotsShared(noise) ==
    /\ LET IsValid(o) == ValidateOrder(agent_portfolios, o)
           valid_orders == SelectSeq(pending_orders, IsValid)
           routed == RouteOrders(books, valid_orders)
           executed == ExecuteAll([cores |-> routed, all_trades |-> <<>>,
                                   trace |-> <<>>], stocks, noise)
           settled == ApplyTrades(agent_portfolios, executed.all_trades)
           tick_log == [tick            |-> tick,
                        orders          |-> pending_orders,
                        trades          |-> executed.all_trades,
                        last_prices     |-> LastPrices(executed.cores),
                        agent_snapshots |-> settled]
       IN /\ books' = executed.cores
          /\ agent_portfolios' = settled
          /\ tick_logs' = Append([i \in 1..Len(tick_logs) |->
                                     [tick_logs[i] EXCEPT !.agent_snapshots = settled]],
                                 tick_log)
          /\ match_trace' = executed.trace
    /\ pending_orders' = <<>>
    /\ tick' = tick + 1
    /\ result' = [op |-> "run_tick", ret |-> "TickLog"]
    /\ UNCHANGED <<stocks, held, server>>

\* mutant: the engines are handled one after the other, each with its own
\* validation, execution and settlement, so that the orders of a later engine
\* are validated against a ledger the earlier engines' trades have changed
RunTickPerEngine(noise) ==
    /\ LET RECURSIVE PerEngine(_, _)
           PerEngine(st, order) ==
               IF order = <<>> THEN st
               ELSE LET sid == Head(order)
                        IsValidFor(o) == o.stock_id = sid /\ ValidateOrder(st.ledger, o)
                        routed == RouteOrders(st.cores, SelectSeq(pending_orders, IsValidFor))
                        done == Execute(routed[sid], noise[sid])
                    IN PerEngine(
                           [cores      |-> [routed EXCEPT ![sid] = done.book],
                            all_trades |-> st.all_trades \o done.trades,
                            trace      |-> st.trace \o done.trace,
                            ledger     |-> ApplyTrades(st.ledger, done.trades)],
                           Tail(order))
           executed == PerEngine([cores |-> books, all_trades |-> <<>>, trace |-> <<>>,
                                  ledger |-> agent_portfolios], stocks)
           tick_log == [tick            |-> tick,
                        orders          |-> pending_orders,
                        trades          |-> executed.all_trades,
                        last_prices     |-> LastPrices(executed.cores),
                        agent_snapshots |-> executed.ledger]
       IN /\ books' = executed.cores
          /\ agent_portfolios' = executed.ledger
          /\ tick_logs' = Append(tick_logs, tick_log)
          /\ match_trace' = executed.trace
    /\ pending_orders' = <<>>
    /\ tick' = tick + 1
    /\ result' = [op |-> "run_tick", ret |-> "TickLog"]
    /\ UNCHANGED <<stocks, held, server>>

\* run_tick(); noise[sid] is the value engine sid draws from random.uniform
RunTick(noise) ==
    /\ LET IsValid(o) == ValidateOrder(agent_portfolios, o)
           valid_orders == SelectSeq(pending_orders, IsValid)
           routed == RouteOrders(books, valid_orders)
           executed == ExecuteAll([cores |-> routed, all_trades |-> <<>>,
                                   trace |-> <<>>], stocks, noise)
           settled == ApplyTrades(agent_portfolios, executed.all_trades)
           tick_log == [tick            |-> tick,
                        orders          |-> pending_orders,
                        trades          |-> executed.all_trades,
                        last_prices     |-> LastPrices(executed.cores),
                        agent_snapshots |-> settled]
       IN /\ books' = executed.cores
          /\ agent_portfolios' = settled
          /\ tick_logs' = Append(tick_logs, tick_log)
          /\ match_trace' = executed.trace
    /\ pending_orders' = <<>>
    /\ tick' = tick + 1
    /\ result' = [op |-> "run_tick", ret |-> "TickLog"]
    /\ UNCHANGED <<stocks, held, server>>

(***************************************************************************)
(* Objects handed to the caller.  An element of held is an AgentPortfolio  *)
(* object the caller has received: cash and positions are the object's own *)
(* fields, and cash_shared or positions_shared tells that the field is not *)
(* the object's own but the very one of the orchestrator's portfolio, as   *)
(* it is for an object that was returned without (or with a shallow) copy. *)
(***************************************************************************)
\* what the caller reads in a held object, given the orchestrator's ledger
HeldView(h, portfolios) ==
    [agent_id  |-> h.agent_id,
     cash      |-> IF h.cash_shared THEN portfolios[h.agent_id].cash ELSE h.cash,
     positions |-> IF h.positions_shared THEN portfolios[h.agent_id].positions
                   ELSE h.positions]

\* mutant: copy.copy instead of deepcopy, the positions dict is shared
GetAgentPortfolioShallow(agent_id) ==
    /\ IF agent_id \in DOMAIN agent_portfolios
       THEN /\ held' = Append(held,
                   [agent_id         |-> agent_id,
                    cash_shared      |-> FALSE,
                    positions_shared |-> TRUE,
                    cash             |-> agent_portfolios[agent_id].cash,
                    positions        |-> agent_portfolios[agent_id].positions])
            /\ result' = [op |-> "get_agent_portfolio", ret |-> "AgentPortfolio"]
       ELSE /\ held' = held
            /\ result' = [op |-> "get_agent_portfolio", ret |-> "None"]
    /\ UNCHANGED <<tick, stocks, books, agent_portfolios, pending_orders, tick_logs,
                   match_trace, server>>

\* get_agent_portfolio(agent_id): a deep copy, or None for an unknown id
GetAgentPortfolio(agent_id) ==
    /\ IF agent_id \in DOMAIN agent_portfolios
       THEN /\ held' = Append(held,
                   [agent_id         |-> agent_id,
                    cash_shared      |-> FALSE,
                    positions_shared |-> FALSE,
                    cash             |-> agent_portfolios[agent_id].cash,
                    positions        |-> agent_portfolios[agent_id].positions])
            /\ result' = [op |-> "get_agent_portfolio", ret |-> "AgentPortfolio"]
       ELSE /\ held' = held
            /\ result' = [op |-> "get_agent_portfolio", ret |-> "None"]
    /\ UNCHANGED <<tick, stocks, books, agent_portfolios, pending_orders, tick_logs,
                   match_trace, server>>

\* the caller assigns held[i].cash = cash
CallerSetsCash(i, cash) ==
    /\ i \in 1..Len(held)
    /\ IF held[i].cash_shared
       THEN /\ agent_portfolios' =
                   [agent_portfolios EXCEPT ![held[i].agent_id].cash = cash]
            /\ held' = held
       ELSE /\ held' = [held EXCEPT ![i].cash = cash]
            /\ agent_portfolios' = agent_portfolios
    /\ result' = [op |-> "caller_sets_cash", ret |-> "None", index |-> i]
    /\ UNCHANGED <<tick, stocks, books, pending_orders, tick_logs, match_trace, server>>

\* the caller assigns held[i].positions[stock_id] = quantity
CallerSetsPosition(i, stock_id, quantity) ==
    /\ i \in 1..Len(held)
    /\ IF held[i].positions_shared
       THEN /\ agent_portfolios' =
                   [agent_portfolios EXCEPT ![held[i].agent_id].positions =
                       Put(@, stock_id, quantity)]
            /\ held' = held
       ELSE /\ held' = [held EXCEPT ![i].positions = Put(@, stock_id, quantity)]
            /\ agent_portfolios' = agent_portfolios
    /\ result' = [op |-> "caller_sets_position", ret |-> "None", index |-> i]
    /\ UNCHANGED <<tick, stocks, books, pending_orders, tick_logs, match_trace, server>>

\* what run_tick computes from the current state when the random source
\* hands engine sid the value random[sid]: the TickLog, the engines and the
\* ledger after the tick
TickOutcome(random) ==
    LET IsValid(o) == ValidateOrder(agent_portfolios, o)
        valid_orders == SelectSeq(pending_orders, IsValid)
        routed == RouteOrders(books, valid_orders)
        executed == ExecuteAll([cores |-> routed, all_trades |-> <<>>,
                                trace |-> <<>>], stocks, random)
        settled == ApplyTrades(agent_portfolios, executed.all_trades)
    IN [tick_log |-> [tick            |-> tick,
                      orders          |-> pending_orders,
                      trades          |-> executed.all_trades,
                      last_prices     |-> LastPrices(executed.cores),
                      agent_snapshots |-> settled],
        books |-> executed.cores,
        agent_portfolios |-> settled]

\* the bound on a run: at most n orders are accepted in all
WithinOrders(n, agent_id, stock_id, side, price, size) ==
    SubmitAccepts(agent_id, stock_id, side, price, size) => OrdersSubmitted < n

NoiseDraws ==
    {nz \in [DOMAIN books ->
                UNION {NoiseChoices(books[sid].volatility) : sid \in DOMAIN books}] :
        \A sid \in DOMAIN books : nz[sid] \in NoiseChoices(books[sid].volatility)}

Next ==
    \/ \E sid \in StockIds, p \in InitialPrices, k \in PriceImpacts, v \in Volatilities :
           RegisterStock(sid, p, k, v)
    \/ \E aid \in AgentIds, c \in CashInputs : RegisterAgent(aid, c)
    \/ \E sid \in StockIds, aq \in SeedInputs : SeedPosition(aq[1], sid, aq[2])
    \/ \E aid \in AgentIds, sid \in StockIds, side \in Sides, ps \in OrderShapes :
           /\ WithinOrders(MaxOrders, aid, sid, side, ps[1], ps[2])
           /\ SubmitOrder(aid, sid, side, ps[1], ps[2])
    \/ \E nz \in NoiseDraws : tick < MaxTick /\ RunTick(nz)

Spec == Init /\ [][Next]_vars

\* the same operations with every order a single unit at the price 1
NextSetup ==
    \/ \E sid \in StockIds, p \in InitialPrices, k \in PriceImpacts, v \in Volatilities :
           RegisterStock(sid, p, k, v)
    \/ \E aid \in AgentIds, c \in CashInputs : RegisterAgent(aid, c)
    \/ \E sid \in StockIds, aq \in SeedInputs : SeedPosition(aq[1], sid, aq[2])
    \/ \E aid \in AgentIds, sid \in StockIds, side \in Sides, ps \in UnitShapes :
           /\ WithinOrders(MaxOrders, aid, sid, side, ps[1], ps[2])
           /\ SubmitOrder(aid, sid, side, ps[1], ps[2])
    \/ \E nz \in NoiseDraws : tick < MaxTick /\ RunTick(nz)

SpecSetup == Init /\ [][NextSetup]_vars

(***************************************************************************)
(* Trading on a scenario that is already set up the way                    *)
(* src/test_simulation.py sets one up: the stock and both agents are       *)
(* registered and the positions are seeded.                                *)
(***************************************************************************)
\* the ledger once both agents are registered and their positions seeded
SeededLedger ==
    [aid \in {"a", "b"} |->
        [agent_id |-> aid, cash |-> 2,
         positions |-> Put(EmptyDict, "X", IF aid = "a" THEN 1 ELSE 2)]]

InitTrading ==
    /\ tick = 0
    /\ stocks = <<"X">>
    /\ books = Put(EmptyDict, "X", NewOrderBook("X", 2, <<1, 4>>, <<0, 1>>))
    /\ agent_portfolios = SeededLedger
    /\ pending_orders = <<>>
    /\ tick_logs = <<>>
    /\ result = [op |-> "seed_position", ret |-> "None"]
    /\ match_trace = <<>>
    /\ held = <<>>
    /\ server = ServerAtLoad

NextTrading ==
    \/ \E aid \in AgentIds, sid \in StockIds, side \in Sides, ps \in OrderShapes :
           /\ WithinOrders(MaxTradingOrders, aid, sid, side, ps[1], ps[2])
           /\ SubmitOrder(aid, sid, side, ps[1], ps[2])
    \/ \E nz \in NoiseDraws : tick < MaxTick /\ RunTick(nz)

SpecTrading == InitTrading /\ [][NextTrading]_vars

\* the same scenario, run for fewer orders
NextLedger ==
    \/ \E aid \in AgentIds, sid \in StockIds, side \in Sides, ps \in OrderShapes :
           /\ WithinOrders(MaxOrders, aid, sid, side, ps[1], ps[2])
           /\ SubmitOrder(aid, sid, side, ps[1], ps[2])
    \/ \E nz \in NoiseDraws : tick < MaxTick /\ RunTick(nz)

SpecLedger == InitTrading /\ [][NextLedger]_vars

\* the same scenario, run for more orders, all at the price 1
NextOversell ==
    \/ \E sid \in StockIds, o \in OversellOrders :
           /\ WithinOrders(MaxOversellOrders, o[1], sid, o[2], 1, o[3])
           /\ SubmitOrder(o[1], sid, o[2], 1, o[3])
    \/ \E nz \in NoiseDraws : tick < MaxTick /\ RunTick(nz)

SpecOversell == InitTrading /\ [][NextOversell]_vars

(***************************************************************************)
(* Two engines: Y is registered before X and is volatile; a holds one unit *)
(* of each stock and sells, b has cash 1 and buys; every order is 1@1.     *)
(***************************************************************************)
PairLedger ==
    [aid \in {"a", "b"} |->
        IF aid = "a"
        THEN [agent_id |-> aid, cash |-> 2,
              positions |-> Put(Put(EmptyDict, "X", 1), "Y", 1)]
        ELSE [agent_id |-> aid, cash |-> 1, positions |-> EmptyDict]]

InitPair ==
    /\ tick = 0
    /\ stocks = <<"Y", "X">>
    /\ books = Put(Put(EmptyDict, "Y", NewOrderBook("Y", 2, <<1, 4>>, <<1, 2>>)),
                   "X", NewOrderBook("X", 2, <<1, 4>>, <<0, 1>>))
    /\ agent_portfolios = PairLedger
    /\ pending_orders = <<>>
    /\ tick_logs = <<>>
    /\ result = [op |-> "seed_position", ret |-> "None"]
    /\ match_trace = <<>>
    /\ held = <<>>
    /\ server = ServerAtLoad

NextPair ==
    \/ \E sid \in PairStocks, as \in SellerAndBuyer, ps \in UnitShapes :
           /\ WithinOrders(MaxPairOrders, as[1], sid, as[2], ps[1], ps[2])
           /\ SubmitOrder(as[1], sid, as[2], ps[1], ps[2])
    \/ \E nz \in NoiseDraws : tick < MaxPairTick /\ RunTick(nz)

SpecPair == InitPair /\ [][NextPair]_vars

(***************************************************************************)
(* The trading scenario with a caller that asks for portfolios and writes  *)
(* into the objects it gets back.                                          *)
(***************************************************************************)
NextSnapshot ==
    \/ \E as \in SellerAndBuyer, sid \in StockIds, ps \in UnitShapes :
           /\ WithinOrders(MaxOrders, as[1], sid, as[2], ps[1], ps[2])
           /\ SubmitOrder(as[1], sid, as[2], ps[1], ps[2])
    \/ \E nz \in NoiseDraws : tick < MaxTick /\ RunTick(nz)
    \/ \E aid \in QueriedAgentIds : Len(held) < MaxHeld /\ GetAgentPortfolio(aid)
    \/ \E i \in 1..Len(held), c \in CallerCash : CallerSetsCash(i, c)
    \/ \E i \in 1..Len(held), sid \in StockIds, q \in CallerQuantities :
           CallerSetsPosition(i, sid, q)

SpecSnapshot == InitTrading /\ [][NextSnapshot]_vars

(***************************************************************************)
(* The price impact scenario of src/test_simulation.py: the stock starts   *)
(* at 100 with price_impact 0.01 and volatility 0, the buyer a has cash    *)
(* 100000 and the seller b has cash 10000 and 1000 units.                  *)
(***************************************************************************)
InitImpact ==
    /\ tick = 0
    /\ stocks = <<"X">>
    /\ books = Put(EmptyDict, "X", NewOrderBook("X", 100, <<1, 100>>, <<0, 1>>))
    /\ agent_portfolios =
           [aid \in {"a", "b"} |->
               IF aid = "a"
               THEN [agent_id |-> aid, cash |-> 100000, positions |-> EmptyDict]
               ELSE [agent_id |-> aid, cash |-> 10000,
                     positions |-> Put(EmptyDict, "X", 1000)]]
    /\ pending_orders = <<>>
    /\ tick_logs = <<>>
    /\ result = [op |-> "seed_position", ret |-> "None"]
    /\ match_trace = <<>>
    /\ held = <<>>
    /\ server = ServerAtLoad

NextImpact ==
    \/ \E aid \in AgentIds, sid \in StockIds, side \in Sides, ps \in ScenarioShapes :
           /\ WithinOrders(MaxOrders, aid, sid, side, ps[1], ps[2])
           /\ SubmitOrder(aid, sid, side, ps[1], ps[2])
    \/ \E nz \in NoiseDraws : tick < MaxTick /\ RunTick(nz)

SpecImpact == InitImpact /\ [][NextImpact]_vars

(***************************************************************************)
(* A volatile stock: the trading scenario with price_impact 1 and          *)
(* volatility 1/2, so that every execute draws a noise factor.             *)
(***************************************************************************)
InitVolatile ==
    /\ tick = 0
    /\ stocks = <<"X">>
    /\ books = Put(EmptyDict, "X", NewOrderBook("X", 2, <<1, 1>>, <<1, 2>>))
    /\ agent_portfolios =
           [aid \in {"a", "b"} |->
               [agent_id |-> aid, cash |-> 2,
                positions |-> Put(EmptyDict, "X", IF aid = "a" THEN 1 ELSE 2)]]
    /\ pending_orders = <<>>
    /\ tick_logs = <<>>
    /\ result = [op |-> "seed_position", ret |-> "None"]
    /\ match_trace = <<>>
    /\ held = <<>>
    /\ server = ServerAtLoad

NextVolatile ==
    \/ \E aid \in AgentIds, sid \in StockIds, side \in Sides, ps \in VolatileShapes :
           /\ WithinOrders(MaxOrders, aid, sid, side, ps[1], ps[2])
           /\ SubmitOrder(aid, sid, side, ps[1], ps[2])
    \/ \E nz \in NoiseDraws : tick < MaxTick /\ RunTick(nz)

SpecVolatile == InitVolatile /\ [][NextVolatile]_vars

(***************************************************************************)
(* One engine on its own: OrderBook("X", ...) driven through its own       *)
(* submit_order and execute, with no orchestrator in front of it.          *)
(***************************************************************************)
InitBook ==
    /\ tick = 0
    /\ stocks = <<"X">>
    /\ books = Put(EmptyDict, "X", NewOrderBook("X", 2, <<1, 4>>, <<0, 1>>))
    /\ agent_portfolios = EmptyDict
    /\ pending_orders = <<>>
    /\ tick_logs = <<>>
    /\ result = [op |-> "init", ret |-> "None"]
    /\ match_trace = <<>>
    /\ held = <<>>
    /\ server = ServerAtLoad

\* OrderBook.submit_order(order) on engine X
EngineSubmit(agent_id, side, price, size) ==
    /\ books["X"].arrivals + Len(books["X"].pending) < MaxBookOrders
    /\ books' = [books EXCEPT !["X"] = BookSubmit(@,
                     [agent_id |-> agent_id, stock_id |-> "X", side |-> side,
                      price |-> price, size |-> size, tick |-> tick])]
    /\ result' = [op |-> "book_submit_order", ret |-> "None"]
    /\ UNCHANGED <<tick, stocks, agent_portfolios, pending_orders, tick_logs,
                   match_trace, held, server>>

\* OrderBook.execute() on engine X
EngineExecute(noise) ==
    /\ LET done == Execute(books["X"], noise)
       IN /\ books' = [books EXCEPT !["X"] = done.book]
          /\ match_trace' = done.trace
    /\ result' = [op |-> "book_execute", ret |-> "trades"]
    /\ UNCHANGED <<tick, stocks, agent_portfolios, pending_orders, tick_logs, held, server>>

NextBook ==
    \/ \E aid \in BookAgents, side \in Sides, ps \in BookShapes :
           EngineSubmit(aid, side, ps[1], ps[2])
    \/ \E nz \in NoiseChoices(books["X"].volatility) : EngineExecute(nz)

SpecBook == InitBook /\ [][NextBook]_vars

(***************************************************************************)
(* The server's start requests (src/server.py).  The handlers are          *)
(* coroutines of one asyncio event loop: a handler runs without            *)
(* interruption from one await to the next, so each action below is the    *)
(* code between two awaits.  A task is "running" from create_task until    *)
(* run_simulation_streaming returns or raises, and "done" afterwards.      *)
(***************************************************************************)
orchestrator_vars ==
    <<tick, stocks, books, agent_portfolios, pending_orders, tick_logs,
      result, match_trace, held>>

InitServer == Init

\* simulation_task is None or simulation_task.done()
TaskIsNoneOrDone(s) ==
    s.simulation_task = 0 \/ s.tasks[s.simulation_task] = "done"

\* simulation_task = asyncio.create_task(run_simulation_streaming(...))
CreateTask(s) ==
    [s EXCEPT !.tasks = Append(@, "running"),
              !.simulation_task = Len(s.tasks) + 1]

\* start requests taken up so far, answered or not
StartRequests ==
    Len(server.replies) + Cardinality({c \in WsClients : server.ws[c] # "receive"})

\* websocket_endpoint, from receive_json returning a start_simulation
\* command to the await of the answer's send_json
WebsocketStartCommand(c) ==
    /\ server.ws[c] = "receive"
    /\ StartRequests < MaxStartRequests
    /\ server' =
           IF TaskIsNoneOrDone(server)
           THEN [CreateTask(server) EXCEPT !.ws[c] = "send_simulation_starting"]
           ELSE [server EXCEPT !.ws[c] = "send_error"]
    /\ UNCHANGED orchestrator_vars

\* websocket_endpoint: the send_json of the answer completes and the loop
\* goes back to receive_json
WebsocketSendReply(c) ==
    /\ server.ws[c] # "receive"
    /\ server' =
           [server EXCEPT
               !.ws[c] = "receive",
               !.replies = Append(@,
                   IF server.ws[c] = "send_error"
                   THEN [to |-> c, type |-> "error",
                         message |-> "Simulation already running"]
                   ELSE [to |-> c, type |-> "simulation_starting",
                         message |-> "None"])]
    /\ UNCHANGED orchestrator_vars

\* mutant: the task is created whatever simulation_task holds
StartSimulationUnchecked ==
    /\ StartRequests < MaxStartRequests
    /\ server' =
           [CreateTask(server) EXCEPT
               !.replies = Append(@, [to |-> "POST /start", type |-> "message",
                                      message |-> "Simulation started"])]
    /\ UNCHANGED orchestrator_vars

\* POST /start: start_simulation has no await, it runs in one piece
StartSimulation ==
    /\ StartRequests < MaxStartRequests
    /\ server' =
           IF ~TaskIsNoneOrDone(server)
           THEN [server EXCEPT
                    !.replies = Append(@, [to |-> "POST /start", type |-> "error",
                                           message |-> "Simulation already running"])]
           ELSE [CreateTask(server) EXCEPT
                    !.replies = Append(@, [to |-> "POST /start", type |-> "message",
                                           message |-> "Simulation started"])]
    /\ UNCHANGED orchestrator_vars

\* run_simulation_streaming returns or raises: the task is done
TaskFinishes(t) ==
    /\ server.tasks[t] = "running"
    /\ server' = [server EXCEPT !.tasks[t] = "done"]
    /\ UNCHANGED orchestrator_vars

NextServer ==
    \/ \E c \in WsClients : WebsocketStartCommand(c)
    \/ \E c \in WsClients : WebsocketSendReply(c)
    \/ StartSimulation
    \/ \E t \in 1..Len(server.tasks) : TaskFinishes(t)

SpecServer == InitServer /\ [][NextServer]_vars

(***************************************************************************)
(* Properties of the ledger.                                               *)
(***************************************************************************)
RECURSIVE SumOver(_, _)
SumOver(S, f) ==
    IF S = {} THEN 0
    ELSE LET x == CHOOSE y \in S : TRUE
         IN f[x] + SumOver(S \ {x}, f)

TotalCash(portfolios) ==
    SumOver(DOMAIN portfolios, [aid \in DOMAIN portfolios |-> portfolios[aid].cash])

TotalPosition(portfolios, stock_id) ==
    SumOver(DOMAIN portfolios,
            [aid \in DOMAIN portfolios |-> Get(portfolios[aid].positions, stock_id)])

LastLog == tick_logs[Len(tick_logs)]

IsRunTickStep == tick' = tick + 1

C2_PositionsConserved ==
    [][IsRunTickStep =>
          \A sid \in StockIds :
              TotalPosition(agent_portfolios', sid) = TotalPosition(agent_portfolios, sid)]_vars

\* a tick has settled a partial fill of a sell order and the buyer holds the units
C2_Witness ==
    /\ tick_logs # <<>>
    /\ \E i \in 1..Len(LastLog.trades) : \E j \in 1..Len(LastLog.orders) :
           LET t == LastLog.trades[i]
               o == LastLog.orders[j]
           IN /\ o.side = "sell"
              /\ o.agent_id = t.seller_id
              /\ o.size > t.size
              /\ t.buyer_id # t.seller_id
              /\ Get(agent_portfolios[t.buyer_id].positions, t.stock_id) >= t.size

\* C3: no participant's position in any security is ever below zero.
C3_NoNegativeInventory ==
    \A aid \in DOMAIN agent_portfolios :
        \A sid \in DOMAIN agent_portfolios[aid].positions :
            agent_portfolios[aid].positions[sid] >= 0

\* C4: no participant's cash is ever below zero.
C4_NoNegativeCash ==
    \A aid \in DOMAIN agent_portfolios : agent_portfolios[aid].cash >= 0

\* C5: a BUY whose price times size exceeds the participant's cash is rejected
\* by submit_order, so the pending buffer never holds such an order (the ledger
\* does not change between a submission and the next run_tick).
C5_UnaffordableBuyNeverQueued ==
    \A i \in 1..Len(pending_orders) :
        LET o == pending_orders[i]
        IN o.side = "buy" => agent_portfolios[o.agent_id].cash >= o.price * o.size

\* C6: a SELL for more units than the participant holds is rejected by
\* submit_order, so the pending buffer never holds such an order.
C6_UncoveredSellNeverQueued ==
    \A i \in 1..Len(pending_orders) :
        LET o == pending_orders[i]
        IN o.side = "sell" =>
               Get(agent_portfolios[o.agent_id].positions, o.stock_id) >= o.size

\* C7: submit_order with an unregistered participant, an unregistered security,
\* price <= 0 or size <= 0 returns false and queues nothing (no such order is
\* ever in the pending buffer), and a call that returns false leaves the
\* pending buffer, the portfolios, the engines, the tick counter and the log
\* history unchanged.
C7_RejectedSubmitChangesNothing ==
    [][/\ (result'.op = "submit_order" /\ result'.ret = "False") =>
              UNCHANGED <<pending_orders, agent_portfolios, books, stocks, tick, tick_logs>>
       /\ \A i \in 1..Len(pending_orders') :
              LET o == pending_orders'[i]
              IN /\ o.agent_id \in DOMAIN agent_portfolios'
                 /\ o.stock_id \in DOMAIN books'
                 /\ o.price > 0
                 /\ o.size > 0]_vars

\* a submit_order was rejected after a tick had changed the ledger
C7_Witness ==
    /\ result.op = "submit_order"
    /\ result.ret = "False"
    /\ tick_logs # <<>>
    /\ LastLog.trades # <<>>

Steps == {match_trace[i] : i \in 1..Len(match_trace)}

\* C9: price priority: the bid of every trade has the highest limit price
\* among the bids then in the book and the ask has the lowest limit price
\* among the asks then in the book.
C9_PricePriority ==
    \A step \in Steps :
        /\ \A e \in step.bids : step.bid[5].price >= e[5].price
        /\ \A e \in step.asks : step.ask[5].price <= e[5].price

\* a bid was taken ahead of a cheaper bid that had arrived before it
C9_Witness ==
    \E step \in Steps : \E e \in step.bids :
        e[5].price < step.bid[5].price /\ e[5].arrival < step.bid[5].arrival

\* C10: time priority: the entry taken for a trade arrived before every other
\* entry of the same side and the same limit price that is then in the book
\* (so a later order is not filled while an earlier one has size left).
C10_TimePriority ==
    \A step \in Steps :
        /\ \A e \in step.bids \ {step.bid} :
               e[5].price = step.bid[5].price => step.bid[5].arrival < e[5].arrival
        /\ \A e \in step.asks \ {step.ask} :
               e[5].price = step.ask[5].price => step.ask[5].arrival < e[5].arrival

\* a bid was taken while a later bid of the same price was waiting in the book
C10_Witness ==
    \E step \in Steps : \E e \in step.bids \ {step.bid} :
        /\ e[5].price = step.bid[5].price
        /\ step.bid[5].arrival < e[5].arrival

\* C11: the price of every trade is the limit price of whichever of the two
\* matched orders arrived earlier: the bid's price when the bid arrived first,
\* otherwise the ask's price; it is never a third value such as a midpoint.
C11_TradePriceOfEarlierOrder ==
    \A step \in Steps :
        step.trade.price =
            IF step.bid[5].arrival < step.ask[5].arrival
            THEN step.bid[5].price
            ELSE step.ask[5].price

\* one execute made a trade at the bid's price and another at the ask's price,
\* the two limit prices being different both times
C11_Witness ==
    /\ \E step \in Steps :
           /\ step.bid[5].price # step.ask[5].price
           /\ step.bid[5].arrival < step.ask[5].arrival
           /\ step.trade.price = step.bid[5].price
    /\ \E step \in Steps :
           /\ step.bid[5].price # step.ask[5].price
           /\ step.ask[5].arrival < step.bid[5].arrival
           /\ step.trade.price = step.ask[5].price

\* the two orders of the price impact scenario, in the order they are submitted
ScenarioAOrders ==
    <<[agent_id |-> "a", stock_id |-> "X", side |-> "buy",
       price |-> 110, size |-> 20, tick |-> 0],
      [agent_id |-> "b", stock_id |-> "X", side |-> "sell",
       price |-> 100, size |-> 20, tick |-> 0]>>

ScenarioARun == tick_logs # <<>> /\ tick_logs[1].orders = ScenarioAOrders

C13_BookEmptyAfterExecute ==
    \A sid \in DOMAIN books :
        result.op \in {"book_execute", "run_tick"} =>
            /\ books[sid].bids = {}
            /\ books[sid].asks = {}
            /\ books[sid].pending = <<>>

RECURSIVE SizeOfSide(_, _)
\* the sum of the sizes of the orders of one side in a sequence of orders
SizeOfSide(orders, side) ==
    IF orders = <<>> THEN 0
    ELSE (IF Head(orders).side = side THEN Head(orders).size ELSE 0)
         + SizeOfSide(Tail(orders), side)

IsEngineExecuteStep == result'.op = "book_execute"

FracLeq(p, q) == p[1] * q[2] <= q[1] * p[2]

\* C15: on a tick with no orders and volatility v > 0 the engine applies one
\* noise factor: the price p' after the tick satisfies
\* p * (1 - v) <= p' <= p * (1 + v) for the price p before it, no trade is
\* produced and no portfolio changes.
C15_QuietTickWithinBand ==
    [][(IsRunTickStep /\ pending_orders = <<>>) =>
          /\ \A sid \in DOMAIN books :
                 LET p == books[sid].last_price
                     q == books'[sid].last_price
                     v == books[sid].volatility
                 IN v[1] > 0 =>
                        /\ FracLeq(FracMul(p, OnePlus(-1, v)), q)
                        /\ FracLeq(q, FracMul(p, OnePlus(1, v)))
          /\ LastLog'.trades = <<>>
          /\ agent_portfolios' = agent_portfolios]_vars

\* C16: the last price of every engine is strictly positive in every
\* reachable state, whatever orders were accepted (heavy net sell pressure
\* included).
C16_LastPricePositive ==
    \A sid \in DOMAIN books : books[sid].last_price[1] > 0

(***************************************************************************)
(* Properties of run_tick read off the tick logs.                          *)
(***************************************************************************)
RECURSIVE LoggedTrades(_)
\* the trades of the first n tick logs, in order
LoggedTrades(n) ==
    IF n = 0 THEN <<>> ELSE LoggedTrades(n - 1) \o tick_logs[n].trades

RECURSIVE Replay(_, _)
\* the settlement rule applied to a sequence of trades, one after the other
Replay(portfolios, trades) ==
    IF trades = <<>> THEN portfolios
    ELSE Replay(ApplyTrade(portfolios, Head(trades)), Tail(trades))

\* C17: replaying every trade recorded in get_logs(), in order, onto the
\* initial ledger (registered cash and seeded positions) with the settlement
\* rule gives exactly the current ledger: nothing but logged trades ever
\* changes a portfolio.
C17_LedgerIsReplayOfLog ==
    Replay(SeededLedger, LoggedTrades(Len(tick_logs))) = agent_portfolios

\* two ticks were run, the second settled a trade and the ledger is no longer
\* the initial one
C17_Witness ==
    /\ Len(tick_logs) = 2
    /\ tick_logs[2].trades # <<>>
    /\ agent_portfolios # SeededLedger

RECURSIVE NetCash(_, _)
\* what a sequence of trades pays to an agent, each trade counted once
NetCash(aid, trades) ==
    IF trades = <<>> THEN 0
    ELSE LET t == Head(trades)
         IN (IF t.seller_id = aid THEN t.price * t.size ELSE 0)
            - (IF t.buyer_id = aid THEN t.price * t.size ELSE 0)
            + NetCash(aid, Tail(trades))

RECURSIVE NetUnits(_, _, _)
\* the units of a stock a sequence of trades delivers to an agent
NetUnits(aid, sid, trades) ==
    IF trades = <<>> THEN 0
    ELSE LET t == Head(trades)
         IN (IF t.buyer_id = aid /\ t.stock_id = sid THEN t.size ELSE 0)
            - (IF t.seller_id = aid /\ t.stock_id = sid THEN t.size ELSE 0)
            + NetUnits(aid, sid, Tail(trades))

\* the ledger a tick started from
LedgerBefore(i) == IF i = 1 THEN SeededLedger ELSE tick_logs[i - 1].agent_snapshots

\* C18: every trade an engine returns during a run_tick is settled exactly
\* once in that run_tick and is exactly once in the trades of its TickLog,
\* and the portfolio snapshots of the log already include these trades.
C18_TradesSettledOnceAndLogged ==
    /\ \A i \in 1..Len(tick_logs) :
           \A aid \in DOMAIN agent_portfolios :
               LET before == LedgerBefore(i)[aid]
                   after == tick_logs[i].agent_snapshots[aid]
               IN /\ after.cash = before.cash + NetCash(aid, tick_logs[i].trades)
                  /\ \A sid \in StockIds :
                         Get(after.positions, sid) =
                             Get(before.positions, sid)
                                 + NetUnits(aid, sid, tick_logs[i].trades)
    /\ tick_logs # <<>> =>
           /\ LastLog.trades = [k \in 1..Len(match_trace) |-> match_trace[k].trade]
           /\ LastLog.agent_snapshots = agent_portfolios

\* the second tick of a run settled a trade between two different agents
C18_Witness ==
    /\ Len(tick_logs) = 2
    /\ match_trace # <<>>
    /\ \E k \in 1..Len(LastLog.trades) :
           LastLog.trades[k].buyer_id # LastLog.trades[k].seller_id

\* C19: an order that fails re-validation in run_tick is never handed to an
\* engine (it enters no book, makes no trade and adds nothing to the net
\* pressure), yet it is in the order list of the TickLog, which holds every
\* order buffered since the previous run_tick, in submission order.
C19_InvalidOrdersLoggedNotRouted ==
    [][IsRunTickStep =>
          LET IsValid(o) == ValidateOrder(agent_portfolios, o)
              valid == SelectSeq(pending_orders, IsValid)
          IN /\ LastLog'.orders = pending_orders
             /\ \A sid \in DOMAIN books :
                    LET IsFor(o) == o.stock_id = sid
                        routed == SelectSeq(valid, IsFor)
                        old == books[sid].arrivals
                        OfStock(x) == x.stock_id = sid
                        steps == SelectSeq(match_trace', OfStock)
                        taken == {steps[k] : k \in 1..Len(steps)}
                        bought == books'[sid].bids \cup {st.bid : st \in taken}
                        sold == books'[sid].asks \cup {st.ask : st \in taken}
                        net == SizeOfSide(routed, "buy") - SizeOfSide(routed, "sell")
                        P == IF steps = <<>>
                             THEN books[sid].last_price
                             ELSE <<steps[Len(steps)].trade.price, 1>>
                        k == books[sid].price_impact
                    IN /\ books'[sid].arrivals = old + Len(routed)
                       /\ \A e \in bought \cup sold :
                              e[5].arrival > old =>
                                  LET o == routed[e[5].arrival - old]
                                  IN /\ o.price = e[5].price
                                     /\ o.size = e[5].size
                                     /\ o.agent_id = e[4]
                                     /\ o.side = IF e \in bought THEN "buy" ELSE "sell"
                       /\ books[sid].volatility[1] = 0 =>
                              FracEq(books'[sid].last_price,
                                     <<P[1] * (k[2] + net * k[1]), P[2] * k[2]>>)]_vars

\* the first tick of a run logged two orders, handed one of them to the
\* engine and held back the other, which the ledger did not cover
C19_Witness ==
    /\ Len(tick_logs) = 1
    /\ Len(LastLog.orders) = 2
    /\ books["X"].arrivals = 1
    /\ \E j \in 1..2 : ~ValidateOrder(SeededLedger, LastLog.orders[j])

RECURSIVE ValueOfBuys(_)
\* the sum of price * size over the BUY orders of a sequence
ValueOfBuys(orders) ==
    IF orders = <<>> THEN 0
    ELSE (IF Head(orders).side = "buy" THEN Head(orders).price * Head(orders).size ELSE 0)
         + ValueOfBuys(Tail(orders))

\* C20: for every participant and security, the total size of the
\* participant's SELL orders routed in one run_tick is at most the position
\* held when the tick starts, and the total limit value of the participant's
\* routed BUY orders is at most the cash held when the tick starts.
C20_RoutedOrdersCovered ==
    [][IsRunTickStep =>
          \A aid \in DOMAIN agent_portfolios :
              LET IsRouted(o) == o.agent_id = aid /\ ValidateOrder(agent_portfolios, o)
                  routed == SelectSeq(pending_orders, IsRouted)
              IN /\ ValueOfBuys(routed) <= agent_portfolios[aid].cash
                 /\ \A sid \in DOMAIN books :
                        LET IsFor(o) == o.stock_id = sid
                        IN SizeOfSide(SelectSeq(routed, IsFor), "sell")
                               <= Get(agent_portfolios[aid].positions, sid)]_vars

\* C21: each run_tick appends exactly one TickLog whose tick index is the
\* tick counter before the call, empties the orchestrator's pending buffer
\* and increments the counter by one; so between calls the number of logs
\* equals the tick counter, the i-th log has tick i, and no order is
\* processed in two different ticks: every logged order is in the log of the
\* tick it was submitted in, and every pending order is of the current tick.
C21_OneLogPerTick ==
    /\ Len(tick_logs) = tick
    /\ \A i \in 1..Len(tick_logs) :
           /\ tick_logs[i].tick = i - 1
           /\ \A j \in 1..Len(tick_logs[i].orders) :
                  tick_logs[i].orders[j].tick = i - 1
    /\ \A j \in 1..Len(pending_orders) : pending_orders[j].tick = tick
    /\ result.op = "run_tick" => pending_orders = <<>>

\* two ticks were run, each on a buffer that held an order
C21_Witness ==
    /\ Len(tick_logs) = 2
    /\ tick_logs[1].orders # <<>>
    /\ tick_logs[2].orders # <<>>
    /\ result.op = "run_tick"

(***************************************************************************)
(* Properties of the objects the orchestrator hands out.                   *)
(***************************************************************************)
\* C22: get_agent_portfolio returns the portfolio's current values as an
\* independent copy. Two calls with no run_tick in between return equal
\* portfolios (each equals the ledger entry, which only run_tick changes),
\* and a caller writing the cash or the position map of one returned copy
\* changes neither any other returned copy nor the orchestrator's ledger, so
\* a later get_agent_portfolio still returns the original values.
C22_PortfolioCopiesIndependent ==
    [][/\ (result'.op = "get_agent_portfolio" /\ result'.ret = "AgentPortfolio") =>
              /\ Len(held') = Len(held) + 1
              /\ LET h == held'[Len(held')]
                 IN HeldView(h, agent_portfolios') = agent_portfolios[h.agent_id]
       /\ result'.op \in {"caller_sets_cash", "caller_sets_position"} =>
              \A j \in 1..Len(held) :
                  j # result'.index =>
                      HeldView(held'[j], agent_portfolios') =
                          HeldView(held[j], agent_portfolios)
       /\ ~IsRunTickStep => agent_portfolios' = agent_portfolios]_vars

\* the caller holds two copies of one portfolio and has written into one of
\* them: the other still reads what the ledger holds
C22_Witness ==
    /\ Len(held) = 2
    /\ held[1].agent_id = held[2].agent_id
    /\ result.op \in {"caller_sets_cash", "caller_sets_position"}
    /\ HeldView(held[1], agent_portfolios) # HeldView(held[2], agent_portfolios)
    /\ \E j \in 1..2 :
           HeldView(held[j], agent_portfolios) = agent_portfolios[held[j].agent_id]

\* C23: the log history is append-only and its entries are immutable: no
\* submit_order and no run_tick changes the orders, trades, last prices or
\* portfolio snapshots of a TickLog that is already in the history (later
\* settlements do not reach earlier snapshots), and no entry is ever removed
\* or moved.
C23_LogsAppendOnly ==
    [][/\ Len(tick_logs') >= Len(tick_logs)
       /\ \A i \in 1..Len(tick_logs) : tick_logs'[i] = tick_logs[i]]_vars

\* a second tick settled a trade: the ledger is no longer what the first
\* log's snapshots hold
C23_Witness ==
    /\ Len(tick_logs) = 2
    /\ tick_logs[2].trades # <<>>
    /\ tick_logs[1].agent_snapshots # agent_portfolios
    /\ tick_logs[1].agent_snapshots # tick_logs[2].agent_snapshots

\* C24: position maps stay sparse: after every run_tick no participant's
\* position map holds an entry whose quantity is exactly zero, for the buyer
\* as well as for the seller of every settled trade.
C24_PositionsSparse ==
    result.op = "run_tick" =>
        \A aid \in DOMAIN agent_portfolios :
            \A sid \in DOMAIN agent_portfolios[aid].positions :
                agent_portfolios[aid].positions[sid] # 0

(***************************************************************************)
(* Properties of run_tick over several engines.                            *)
(***************************************************************************)
\* C25: run_tick calls execute exactly once on every registered engine, also
\* on one that received no order this tick, in registration order; the trade
\* list of the TickLog and the order of settlement are the engines' trade
\* lists concatenated in registration order, each in the order the engine
\* made the trades.
C25_EnginesInRegistrationOrder ==
    [][IsRunTickStep =>
          LET IsValid(o) == ValidateOrder(agent_portfolios, o)
              routed == RouteOrders(books, SelectSeq(pending_orders, IsValid))
              TradesOf(sid) == Execute(routed[sid], <<0, 1>>).trades
              RECURSIVE Concatenated(_)
              Concatenated(order) ==
                  IF order = <<>> THEN <<>>
                  ELSE TradesOf(Head(order)) \o Concatenated(Tail(order))
          IN /\ \A sid \in DOMAIN books :
                    \E n \in NoiseChoices(books[sid].volatility) :
                        books'[sid] = Execute(routed[sid], n).book
             /\ LastLog'.trades = Concatenated(stocks)
             /\ agent_portfolios' = Replay(agent_portfolios, Concatenated(stocks))]_vars

\* one tick made a trade on each engine: the orders for X were submitted
\* first, the trades of Y, registered first, come first in the log
C25_Witness ==
    /\ tick_logs # <<>>
    /\ Len(LastLog.trades) >= 2
    /\ LastLog.orders[1].stock_id = "X"
    /\ LastLog.trades[1].stock_id = "Y"
    /\ LastLog.trades[Len(LastLog.trades)].stock_id = "X"

\* C28: within run_tick, settlement is one pass that starts only after
\* execute has returned on every engine: the orders of every engine are
\* validated against the ledger as it was at the end of the previous tick
\* (no trade of this tick has changed it yet), and the ledger after the tick
\* is the ledger before it with all of the tick's trades applied in order.
C28_SettlementAfterAllEngines ==
    [][IsRunTickStep =>
          /\ \A sid \in DOMAIN books :
                 LET IsValidFor(o) == o.stock_id = sid /\ ValidateOrder(agent_portfolios, o)
                 IN books'[sid].arrivals =
                        books[sid].arrivals + Len(SelectSeq(pending_orders, IsValidFor))
          /\ LastLog'.trades = [k \in 1..Len(match_trace') |-> match_trace'[k].trade]
          /\ agent_portfolios' = Replay(agent_portfolios, LastLog'.trades)]_vars

\* the trades of the tick on Y, applied to the ledger the tick started from
AfterTradesOnY ==
    LET OnY(t) == t.stock_id = "Y"
    IN Replay(PairLedger, SelectSeq(tick_logs[1].trades, OnY))

\* the first tick routed an order to X that the ledger no longer covered once
\* the trades on Y, the engine executed before X, are settled
C28_Witness ==
    /\ Len(tick_logs) = 1
    /\ books["X"].arrivals >= 1
    /\ \E j \in 1..Len(tick_logs[1].orders) :
           LET o == tick_logs[1].orders[j]
           IN /\ o.stock_id = "X"
              /\ ValidateOrder(PairLedger, o)
              /\ ~ValidateOrder(AfterTradesOnY, o)

\* C26: determinism for replay: with volatility 0 on every engine, the
\* TickLog a run_tick produces (trades in order, last prices, portfolio
\* snapshots) and the state it leaves are a function of the state it starts
\* from alone, whatever the random source would hand out; submit_order being
\* a function of its arguments and the state, two orchestrators that start
\* alike and receive the same calls produce identical TickLogs at every tick.
C26_TickOutcomeDetermined ==
    [][(IsRunTickStep /\ \A sid \in DOMAIN books : books[sid].volatility[1] = 0) =>
          \A random \in [DOMAIN books -> RandomValues] :
              /\ tick_logs' = Append(tick_logs, TickOutcome(random).tick_log)
              /\ books' = TickOutcome(random).books
              /\ agent_portfolios' = TickOutcome(random).agent_portfolios]_vars

\* a second tick on engines without volatility moved the price and settled a
\* trade
C26_Witness ==
    /\ Len(tick_logs) = 2
    /\ \A sid \in DOMAIN books : books[sid].volatility[1] = 0
    /\ tick_logs[2].trades # <<>>
    /\ tick_logs[2].last_prices # tick_logs[1].last_prices

\* C27: the orchestrator's submit_order, accepted or rejected, touches no
\* engine (pending buffer, heaps, sequence counter and last price of every
\* engine stay as they are) and leaves all portfolios, the tick counter and
\* the log history unchanged; on acceptance the only change is one order
\* appended to the orchestrator's pending buffer, stamped with the current
\* tick.
C27_SubmitOrderFrame ==
    [][result'.op = "submit_order" =>
          /\ UNCHANGED <<books, stocks, agent_portfolios, tick, tick_logs>>
          /\ IF result'.ret = "True"
             THEN /\ Len(pending_orders') = Len(pending_orders) + 1
                  /\ SubSeq(pending_orders', 1, Len(pending_orders)) = pending_orders
                  /\ pending_orders'[Len(pending_orders')].tick = tick
             ELSE pending_orders' = pending_orders]_vars

\* an order was accepted after a tick that left an entry resting in the book
C27_Witness ==
    /\ result.op = "submit_order"
    /\ result.ret = "True"
    /\ tick >= 1
    /\ books["X"].bids \cup books["X"].asks # {}
    /\ pending_orders[Len(pending_orders)].tick = tick

(***************************************************************************)
(* Properties of fills.  An order is known by its rank of arrival at the   *)
(* engine, which its entry carries through every re-push.                  *)
(***************************************************************************)
\* the size an order has left in the book made of the two heaps (0: not there)
RemainingIn(bids, asks, arrival) ==
    LET es == {e \in bids \cup asks : e[5].arrival = arrival}
    IN IF es = {} THEN 0 ELSE (CHOOSE e \in es : TRUE)[3]

RECURSIVE FilledIn(_, _)
\* the sum of the sizes of the trades of a trace an order took part in
FilledIn(trace, arrival) ==
    IF trace = <<>> THEN 0
    ELSE (IF arrival \in {Head(trace).bid[5].arrival, Head(trace).ask[5].arrival}
          THEN Head(trace).trade.size ELSE 0)
         + FilledIn(Tail(trace), arrival)

\* C29: every trade has size = min(remaining bid size, remaining ask size)
\* > 0, and the trades an order takes part in never add up to more than its
\* submitted size over its whole life in the book: in every execute, what an
\* order is filled by is exactly what its remaining size goes down by, the
\* remaining size starts at the submitted size and never goes below zero.
C29_FillsWithinOrderSize ==
    [][IsEngineExecuteStep =>
          LET book == books["X"]
              after == books'["X"]
              Before(a) == IF a > book.arrivals
                           THEN book.pending[a - book.arrivals].size
                           ELSE RemainingIn(book.bids, book.asks, a)
          IN /\ \A k \in 1..Len(match_trace') :
                    LET st == match_trace'[k]
                    IN /\ st.trade.size > 0
                       /\ st.trade.size <= st.bid[3]
                       /\ st.trade.size <= st.ask[3]
                       /\ st.trade.size \in {st.bid[3], st.ask[3]}
             /\ \A a \in 1..after.arrivals :
                    /\ FilledIn(match_trace', a) =
                           Before(a) - RemainingIn(after.bids, after.asks, a)
                    /\ RemainingIn(after.bids, after.asks, a) >= 0
             /\ \A e \in after.bids \cup after.asks : e[3] <= e[5].size]_vars

\* an order that an earlier trade had filled in part was filled up
C29_Witness ==
    \E st \in Steps :
        /\ st.bid[3] < st.bid[5].size
        /\ st.trade.size = st.bid[3]
        /\ RemainingIn(books["X"].bids, books["X"].asks, st.bid[5].arrival) = 0

\* the book a matching step leaves: the heaps at the head of the next step,
\* or the engine's heaps if it was the last step of the execute
BidsAfterStep(k) ==
    IF k < Len(match_trace) THEN match_trace[k + 1].bids
    ELSE books[match_trace[k].stock_id].bids

AsksAfterStep(k) ==
    IF k < Len(match_trace) THEN match_trace[k + 1].asks
    ELSE books[match_trace[k].stock_id].asks

\* what the claim says a step leaves of the entry it took from a heap
LeftOf(heap, entry, traded) ==
    (heap \ {entry}) \cup
        (IF entry[3] > traded
         THEN {<<entry[1], entry[2], entry[3] - traded, entry[4], entry[5]>>}
         ELSE {})

\* C30: a partially filled order is put back with its original price,
\* sequence number and participant and with its size reduced by exactly the
\* traded size, so it keeps its place ahead of every order of the same price
\* that arrived after it; a fully filled order is removed from the book.
C30_RemainderKeepsPlace ==
    \A k \in 1..Len(match_trace) :
        LET st == match_trace[k]
        IN /\ BidsAfterStep(k) = LeftOf(st.bids, st.bid, st.trade.size)
           /\ AsksAfterStep(k) = LeftOf(st.asks, st.ask, st.trade.size)
           /\ \A e \in BidsAfterStep(k) :
                  (e[5].arrival = st.bid[5].arrival) =>
                      /\ -e[1] = e[5].price
                      /\ e[3] = st.bid[3] - st.trade.size
                      /\ \A f \in BidsAfterStep(k) :
                             (f[5].price = e[5].price /\ f[5].arrival > e[5].arrival)
                                 => TupleLess(e, f)
           /\ \A e \in AsksAfterStep(k) :
                  (e[5].arrival = st.ask[5].arrival) =>
                      /\ e[1] = e[5].price
                      /\ e[3] = st.ask[3] - st.trade.size
                      /\ \A f \in AsksAfterStep(k) :
                             (f[5].price = e[5].price /\ f[5].arrival > e[5].arrival)
                                 => TupleLess(e, f)

\* a step put the remainder of a partially filled bid back while a later bid
\* of the same price was waiting: the remainder is first in the heap, and the
\* ask of the step, filled in full, is out of the book
C30_Witness ==
    \E k \in 1..Len(match_trace) :
        LET st == match_trace[k]
        IN /\ st.ask \notin AsksAfterStep(k)
           /\ \E e \in BidsAfterStep(k) :
                  /\ e[5].arrival = st.bid[5].arrival
                  /\ e[3] < e[5].size
                  /\ HeapTop(BidsAfterStep(k)) = e
                  /\ \E f \in BidsAfterStep(k) :
                         f[5].price = e[5].price /\ f[5].arrival > e[5].arrival

(***************************************************************************)
(* Properties of the matching loop as a whole.                             *)
(***************************************************************************)
\* C31: matching is exhaustive: when execute returns, one side of the book is
\* empty or the best bid price is strictly below the best ask price, and no
\* bid is left in the book together with an ask whose limit price it reaches.
C31_MatchingExhaustive ==
    result.op = "book_execute" =>
        LET book == books["X"]
        IN /\ \/ book.bids = {}
              \/ book.asks = {}
              \/ -HeapTop(book.bids)[1] < HeapTop(book.asks)[1]
           /\ \A b \in book.bids, a \in book.asks : b[5].price < a[5].price

\* an execute traded and returned with orders left on both sides of the book
C31_Witness ==
    /\ result.op = "book_execute"
    /\ match_trace # <<>>
    /\ books["X"].bids # {}
    /\ books["X"].asks # {}

\* C32: the price of every trade lies between the limits of its two orders:
\* seller's limit price <= trade price <= buyer's limit price, so the buyer
\* pays no more per unit than its limit and the seller receives no less.
C32_TradePriceWithinLimits ==
    \A step \in Steps :
        /\ step.ask[5].price <= step.trade.price
        /\ step.trade.price <= step.bid[5].price

\* an execute made a trade below the buyer's limit and a trade above the
\* seller's limit
C32_Witness ==
    /\ \E step \in Steps : step.trade.price < step.bid[5].price
    /\ \E step \in Steps : step.ask[5].price < step.trade.price

(***************************************************************************)
(* Properties of the orchestrator's engines taken together.                *)
(***************************************************************************)
\* the entries an engine's execute had in hand: those of the book it leaves
\* and those of the heaps of its matching steps in the trace
EntriesSeen(trace, book, stock_id) ==
    book.bids \cup book.asks \cup
    UNION {trace[k].bids \cup trace[k].asks :
               k \in {j \in 1..Len(trace) : trace[j].stock_id = stock_id}}

\* C33: engines are isolated: an order for a security is routed only to that
\* security's engine (each engine inserts exactly the valid orders for its
\* own security, in their order), every trade an engine returns carries the
\* engine's security id, and in a tick where no order is for a security its
\* engine returns no trade and, with volatility 0, keeps its last price,
\* heaps and sequence counter unchanged.
C33_EnginesIsolated ==
    [][IsRunTickStep =>
          \A sid \in DOMAIN books :
              LET For(o) == o.stock_id = sid /\ ValidateOrder(agent_portfolios, o)
                  routed == SelectSeq(pending_orders, For)
                  before == books[sid]
                  after == books'[sid]
              IN /\ after.sequence = before.sequence + Len(routed)
                 /\ \A e \in EntriesSeen(match_trace', after, sid) :
                        \/ e[2] <= before.sequence
                        \/ /\ e[2] - before.sequence \in 1..Len(routed)
                           /\ LET o == routed[e[2] - before.sequence]
                              IN /\ e[4] = o.agent_id
                                 /\ e[5].price = o.price
                                 /\ e[5].size = o.size
                 /\ \A k \in 1..Len(match_trace') :
                        match_trace'[k].trade.stock_id = match_trace'[k].stock_id
                 /\ (\A i \in 1..Len(pending_orders) : pending_orders[i].stock_id # sid) =>
                        /\ \A i \in 1..Len(tick_logs'[Len(tick_logs')].trades) :
                               tick_logs'[Len(tick_logs')].trades[i].stock_id # sid
                        /\ before.volatility = <<0, 1>> => after = before]_vars

\* a tick whose orders were all for Y made a trade on Y and left the engine
\* of X, which has volatility 0, as it was
C33_Witness ==
    /\ tick_logs # <<>>
    /\ LastLog.orders # <<>>
    /\ \A i \in 1..Len(LastLog.orders) : LastLog.orders[i].stock_id = "Y"
    /\ \E i \in 1..Len(LastLog.trades) : LastLog.trades[i].stock_id = "Y"
    /\ books["X"] = NewOrderBook("X", 2, <<1, 4>>, <<0, 1>>)

\* the lookups run_tick makes for an order and for a trade find their keys
OrderRefersToRegistered(o) ==
    o.agent_id \in DOMAIN agent_portfolios /\ o.stock_id \in DOMAIN books

TradeRefersToRegistered(t) ==
    /\ t.buyer_id \in DOMAIN agent_portfolios
    /\ t.seller_id \in DOMAIN agent_portfolios
    /\ t.stock_id \in DOMAIN books

\* C34: run_tick runs to completion in every reachable state: every order in
\* the pending buffer, every entry waiting in a book and every trade an
\* engine has returned refers to a registered participant and a registered
\* security, so no lookup of validation, routing or settlement misses its
\* key, and no tick is left half-applied: there is one log per tick run, and
\* after a run_tick the buffers are empty and the log holds the ledger and the
\* prices as they are.
C34_RunTickCompletes ==
    /\ \A i \in 1..Len(pending_orders) : OrderRefersToRegistered(pending_orders[i])
    /\ \A sid \in DOMAIN books :
           /\ books[sid].pending = <<>>
           /\ \A e \in books[sid].bids \cup books[sid].asks :
                  e[4] \in DOMAIN agent_portfolios
    /\ Len(tick_logs) = tick
    /\ result.op = "run_tick" =>
           /\ \A i \in 1..Len(LastLog.orders) :
                  OrderRefersToRegistered(LastLog.orders[i])
           /\ \A i \in 1..Len(LastLog.trades) :
                  TradeRefersToRegistered(LastLog.trades[i])
           /\ pending_orders = <<>>
           /\ LastLog.agent_snapshots = agent_portfolios
           /\ LastLog.last_prices = LastPrices(books)

\* a tick ran and settled a trade while a participant of the scenario was
\* not registered
C34_Witness ==
    /\ result.op = "run_tick"
    /\ LastLog.trades # <<>>
    /\ \E aid \in AgentIds : aid \notin DOMAIN agent_portfolios

\* number of entries and total remaining size of a book made of two heaps
EntriesIn(bids, asks) == Cardinality(bids) + Cardinality(asks)

SizeIn(bids, asks) ==
    SumOver(bids, [e \in bids |-> e[3]]) + SumOver(asks, [e \in asks |-> e[3]])

\* C35: execute terminates: every iteration of the matching loop removes at
\* least one entry from the book or strictly reduces the total remaining size
\* (it always does the former, and the latter too when it trades a positive
\* size), so the loop ends after at most as many iterations as there were
\* entries in the book when it started.
C35_ExecuteTerminates ==
    /\ \A k \in 1..Len(match_trace) :
           LET st == match_trace[k]
           IN /\ \/ EntriesIn(BidsAfterStep(k), AsksAfterStep(k)) < EntriesIn(st.bids, st.asks)
                 \/ SizeIn(BidsAfterStep(k), AsksAfterStep(k)) < SizeIn(st.bids, st.asks)
              /\ EntriesIn(BidsAfterStep(k), AsksAfterStep(k)) < EntriesIn(st.bids, st.asks)
    /\ match_trace # <<>> =>
           Len(match_trace) <= EntriesIn(match_trace[1].bids, match_trace[1].asks)

\* an execute made two iterations, one of which put a remainder back in the
\* book and so removed one entry only
C35_Witness ==
    /\ Len(match_trace) >= 2
    /\ \E k \in 1..Len(match_trace) :
           EntriesIn(BidsAfterStep(k), AsksAfterStep(k)) =
               EntriesIn(match_trace[k].bids, match_trace[k].asks) - 1

\* C36: every trade recorded in the TickLog of tick t carries the tick field
\* t, the tick in which it was executed, as every order in that log carries
\* the tick in which it was submitted.
C36_TradeTickIsLogTick ==
    \A n \in 1..Len(tick_logs) :
        /\ \A i \in 1..Len(tick_logs[n].orders) :
               tick_logs[n].orders[i].tick = tick_logs[n].tick
        /\ \A i \in 1..Len(tick_logs[n].trades) :
               tick_logs[n].trades[i].tick = tick_logs[n].tick

\* a trade whose buyer is its seller
IsSelfTrade(trade) == trade.buyer_id = trade.seller_id

IsNotSelfTrade(trade) == ~IsSelfTrade(trade)

EntriesOfX == EntriesSeen(match_trace, books["X"], "X")

\* C39: an engine's sequence counter only increases, by exactly one per order
\* inserted into the book, over the engine's whole life: it equals the number
\* of orders inserted so far, no two orders that are in the book have the
\* same sequence number, and an order inserted later has a larger sequence
\* number than one inserted earlier.
C39_SequenceCounterMonotonic ==
    /\ books["X"].sequence = books["X"].arrivals
    /\ \A e \in EntriesOfX :
           /\ e[2] \in 1..books["X"].sequence
           /\ e[2] = e[5].arrival
    /\ \A e, f \in EntriesOfX :
           /\ e[5].arrival # f[5].arrival => e[2] # f[2]
           /\ e[5].arrival < f[5].arrival => e[2] < f[2]

\* the book holds an order and the remainder of an order inserted after it,
\* a third order having been inserted and filled
C39_Witness ==
    /\ books["X"].sequence >= 3
    /\ \E e, f \in books["X"].bids \cup books["X"].asks :
           /\ e[5].arrival < f[5].arrival
           /\ f[3] < f[5].size

(***************************************************************************)
(* Properties of the server's start requests.                              *)
(***************************************************************************)
\* the tasks that have been created and are not done
ActiveTasks(s) == {t \in 1..Len(s.tasks) : s.tasks[t] = "running"}

\* the step takes up a start request: from the /ws handler c, or POST /start
IsWsStartStep(c) == server.ws[c] = "receive" /\ server'.ws[c] # "receive"

IsPostStartStep ==
    /\ Len(server'.replies) = Len(server.replies) + 1
    /\ server'.replies[Len(server'.replies)].to = "POST /start"

\* C38: at most one simulation task is active at any time: a start request
\* (the start_simulation command on /ws, or POST /start) that arrives while a
\* simulation task exists and is not done starts no new task and is answered
\* with the error 'Simulation already running', whatever the interleaving of
\* the two entry points.
C38_SingleSimulationTask ==
    [][/\ Cardinality(ActiveTasks(server')) <= 1
       /\ \A c \in WsClients :
              (IsWsStartStep(c) /\ ActiveTasks(server) # {}) =>
                  /\ server'.tasks = server.tasks
                  /\ server'.simulation_task = server.simulation_task
                  /\ server'.ws[c] = "send_error"
       /\ (IsPostStartStep /\ ActiveTasks(server) # {}) =>
              /\ server'.tasks = server.tasks
              /\ server'.simulation_task = server.simulation_task
              /\ server'.replies[Len(server'.replies)].type = "error"
              /\ server'.replies[Len(server'.replies)].message =
                     "Simulation already running"
       /\ \A i \in 1..Len(server'.replies) :
              server'.replies[i].type = "error" =>
                  server'.replies[i].message = "Simulation already running"]_vars

\* while the task started over /ws is running, both a POST /start and a
\* start command of the other client have been answered with the error
C38_Witness ==
    /\ ActiveTasks(server) # {}
    /\ \E i \in 1..Len(server.replies) :
           server.replies[i].to = "POST /start" /\ server.replies[i].type = "error"
    /\ \E i \in 1..Len(server.replies) :
           server.replies[i].to \in WsClients /\ server.replies[i].type = "error"
    /\ \E i \in 1..Len(server.replies) :
           server.replies[i].type = "simulation_starting"

====
